---- MODULE Spec2Model ----
(***************************************************************************)
(* Task lifecycle of the Arke export orchestrator: the Worker's handlers   *)
(* (export, status, callback, download) over the task store.  The          *)
(* repository holds two generations of the Worker: the current one keeps   *)
(* each task in a TaskStore Durable Object (SQLite row, task-store.ts),    *)
(* the earlier one keeps it as a JSON value in a KV namespace.  The         *)
(* variable impl says which generation a behaviour runs.                    *)
(***************************************************************************)
EXTENDS Integers, Sequences, FiniteSets, Bags, TLC

\* ------------------------------------------------------------------ bounds
MaxClock == 2
MaxExports == 2
MaxCallbacks == 2
MaxInflight == 2

\* ------------------------------------------------------------------ values
\* JS undefined, a key absent from JSON and SQL NULL, for text and for numbers.
Null == "null"
NoNum == 0 - 1

Clock == 1..MaxClock
\* crypto.randomUUID().slice(0, 8): two draws may agree
Rands == {"a3f8c2d1", "0b7e11aa"}
Impls == {"do", "kv"}

\* `${timestamp}_${random}` after the fixed prefix export_mods_
generateTaskId(timestamp, random) == <<timestamp, random>>

\* an id no export request ever generated (timestamp 0)
UnknownId == generateTaskId(0, "ffffffff")

\* request bodies of POST /export: pi absent, empty, present
Pis == {Null, "", "X1"}
OptionsIn == {"{recursive:true}"}

\* x || null, x || undefined
OrNull(x) == IF x = Null \/ x = "" THEN Null ELSE x
OrNullNum(x) == IF x = NoNum \/ x = 0 THEN NoNum ELSE x
\* options || {}
OrEmptyObject(x) == IF x = Null \/ x = "" THEN "{}" ELSE x

\* ------------------------------------------------------------------ TaskState
TaskState(task_id, pi, options, machine_id, instance_id, created_at) ==
    [task_id |-> task_id, batch_id |-> "single", status |-> "processing",
     pi |-> pi, options |-> options,
     machine_id |-> machine_id, instance_id |-> instance_id,
     output_r2_key |-> Null, output_file_name |-> Null,
     output_file_size |-> NoNum, metrics |-> Null, error |-> Null,
     created_at |-> created_at, completed_at |-> NoNum]

NoTask == [TaskState(UnknownId, Null, Null, Null, Null, NoNum) EXCEPT
             !.batch_id = Null, !.status = Null]

\* ------------------------------------------------------------------ CallbackPayload
\* task_id is the id the body names; NoId when the body names none
NoId == <<NoNum, Null>>

Payload(json, status, key, name, size, metrics, error) ==
    [json |-> json, task_id |-> NoId, status |-> status, output_r2_key |-> key,
     output_file_name |-> name, output_file_size |-> size,
     metrics |-> metrics, error |-> error]

SuccessFull == Payload(TRUE, "success", "exports/X1/out.json", "out.json", 1024, "{m}", Null)
\* an export that wrote an empty file
SuccessEmpty == Payload(TRUE, "success", "exports/X1/empty.json", "empty.json", 0, "{m}", Null)
SuccessBare == Payload(TRUE, "success", Null, "out.json", 0, Null, Null)
ErrorMsg == Payload(TRUE, "error", Null, Null, NoNum, Null, "upstream 404")
ErrorBare == Payload(TRUE, "error", Null, Null, NoNum, Null, Null)
\* a status outside the declared 'success' | 'error'
Reopen == Payload(TRUE, "processing", Null, Null, NoNum, Null, Null)
NoStatus == Payload(TRUE, Null, Null, Null, NoNum, Null, Null)
\* a body request.json() cannot parse
Malformed == Payload(FALSE, Null, Null, Null, NoNum, Null, Null)

Payloads == {SuccessFull, SuccessEmpty, SuccessBare, ErrorMsg, ErrorBare, Reopen, NoStatus,
             Malformed}

\* ------------------------------------------------------------------ responses
\* What a handler answered.  cb, pre and seen are not sent: they keep the
\* payload the handler was given, the stored record as it was before the
\* handler's last store step, and the status the handler read from the store
\* ("unread" when it read nothing).  store is what the store answered to the
\* handler's write call: "ok", "error", or "none" when it made none.  A
\* spawn request sent to the Machines API is kept the same way, with kind
\* "spawn": id is its TASK_ID and url its CALLBACK_URL.
Response(kind, id, code) ==
    [kind |-> kind, id |-> id, code |-> code, error |-> Null, arg |-> Null,
     received |-> FALSE, task |-> NoTask, stream |-> FALSE,
     filename |-> Null, length |-> Null, cb |-> Malformed, pre |-> NoTask,
     seen |-> "unread", store |-> "none", url |-> <<"none", UnknownId>>]

NoOut == Response("none", UnknownId, 0)

errorResponse(kind, id, message, code) ==
    [Response(kind, id, code) EXCEPT !.error = message]

\* the body of GET /status/:taskId
StatusResponse(taskState) ==
    [NoTask EXCEPT !.task_id = taskState.task_id,
                   !.status = taskState.status,
                   !.pi = taskState.pi,
                   !.created_at = taskState.created_at,
                   !.completed_at = taskState.completed_at,
                   !.output_r2_key = taskState.output_r2_key,
                   !.output_file_name = taskState.output_file_name,
                   !.output_file_size = taskState.output_file_size,
                   !.metrics = taskState.metrics,
                   !.error = taskState.error]

\* ------------------------------------------------------------------ state
VARIABLES
    impl,     \* "do": Durable Object store, "kv": KV namespace store
    now,      \* Date.now()
    tasks,    \* the store: task id -> row (do) or stored TaskState (kv)
    procs,    \* bag of handlers suspended at an await: pc, task id, payload, taskState
    nexp,     \* export requests that reached the spawn call
    nspawn,   \* spawn calls made to the Machines API
    ncb,      \* completion callbacks received
    first,    \* task id -> the callback that moved its record out of processing
    out       \* the response sent by the step just taken

vars == <<impl, now, tasks, procs, nexp, nspawn, ncb, first, out>>

Proc(pc, id, cb, task) == [pc |-> pc, id |-> id, cb |-> cb, task |-> task]

Suspended(pc) == {r \in BagToSet(procs) : r.pc = pc}
Suspend(r) == procs (+) SetToBag({r})
Resume(r) == procs (-) SetToBag({r})
CanSuspend == BagCardinality(procs) < MaxInflight

Exists(t) == t \in DOMAIN tasks
Row(t) == IF Exists(t) THEN tasks[t] ELSE NoTask

\* ids the outside world can know: persisted ones and ones handed to a
\* spawned machine whose record is not persisted yet
Issued == DOMAIN tasks \cup {r.id : r \in Suspended("create")}
Targets == Issued \cup {UnknownId}

Init ==
    /\ impl \in Impls
    /\ now = 1
    /\ tasks = <<>>
    /\ procs = EmptyBag
    /\ nexp = 0
    /\ nspawn = 0
    /\ ncb = 0
    /\ first = <<>>
    /\ out = NoOut

\* ------------------------------------------------------------------ TaskStore (Durable Object)
\* faulty variant: the INSERT leaves the request fields out
createTask_partial(taskState) ==
    [TaskState(taskState.task_id, Null, Null,
               OrNull(taskState.machine_id), OrNull(taskState.instance_id),
               taskState.created_at)
       EXCEPT !.batch_id = taskState.batch_id, !.status = taskState.status]

\* INSERT INTO tasks (...): the row as SQLite keeps it; the columns the
\* statement does not name are NULL
createTask(taskState) ==
    [TaskState(taskState.task_id, taskState.pi, taskState.options,
               OrNull(taskState.machine_id), OrNull(taskState.instance_id),
               taskState.created_at)
       EXCEPT !.batch_id = taskState.batch_id, !.status = taskState.status]

\* task_id TEXT PRIMARY KEY: a second INSERT for the id throws
createTaskThrows(taskState) == Exists(taskState.task_id)

\* faulty variant: an id without a row is answered with an empty record
getTask_emptyRow(taskId) ==
    IF ~Exists(taskId) THEN [NoTask EXCEPT !.task_id = taskId, !.status = "processing"]
    ELSE tasks[taskId]

\* SELECT * FROM tasks WHERE task_id = ?, rebuilt as a TaskState; null is NoTask
getTask(taskId) ==
    IF ~Exists(taskId) THEN NoTask
    ELSE LET row == tasks[taskId] IN
         [row EXCEPT !.machine_id = OrNull(row.machine_id),
                     !.instance_id = OrNull(row.instance_id),
                     !.output_r2_key = OrNull(row.output_r2_key),
                     !.output_file_name = OrNull(row.output_file_name),
                     !.output_file_size = OrNullNum(row.output_file_size),
                     !.metrics = IF row.metrics # Null THEN row.metrics ELSE Null,
                     !.error = OrNull(row.error),
                     !.completed_at = OrNullNum(row.completed_at)]

\* status TEXT NOT NULL: a callback without a status cannot be bound
completeTaskThrows(taskId, callback) == callback.status = Null

\* faulty variant: the UPDATE statements without their WHERE clause
completeTask_noWhere(taskId, callback, ts) ==
    [t \in DOMAIN tasks |->
        IF callback.status = "success"
        THEN [tasks[t] EXCEPT !.status = callback.status,
                              !.completed_at = ts,
                              !.output_r2_key = OrNull(callback.output_r2_key),
                              !.output_file_name = OrNull(callback.output_file_name),
                              !.output_file_size = OrNullNum(callback.output_file_size),
                              !.metrics = callback.metrics]
        ELSE [tasks[t] EXCEPT !.status = callback.status,
                              !.completed_at = ts,
                              !.error = OrNull(callback.error)]]

\* faulty variant: a callback for an id without a row inserts one
completeTask_upsert(taskId, callback, ts) ==
    LET table == IF Exists(taskId) THEN tasks
                 ELSE (taskId :> [NoTask EXCEPT !.task_id = taskId]) @@ tasks
    IN IF callback.status = "success"
       THEN [table EXCEPT ![taskId] =
               [@ EXCEPT !.status = callback.status,
                         !.completed_at = ts,
                         !.output_r2_key = OrNull(callback.output_r2_key),
                         !.output_file_name = OrNull(callback.output_file_name),
                         !.output_file_size = OrNullNum(callback.output_file_size),
                         !.metrics = IF callback.metrics # Null THEN callback.metrics ELSE Null]]
       ELSE [table EXCEPT ![taskId] =
               [@ EXCEPT !.status = callback.status,
                         !.completed_at = ts,
                         !.error = OrNull(callback.error)]]

\* the two UPDATE statements; WHERE task_id = ? matches the row or nothing
completeTask(taskId, callback, ts) ==
    IF ~Exists(taskId) THEN tasks
    ELSE IF callback.status = "success"
    THEN [tasks EXCEPT ![taskId] =
            [@ EXCEPT !.status = callback.status,
                      !.completed_at = ts,
                      !.output_r2_key = OrNull(callback.output_r2_key),
                      !.output_file_name = OrNull(callback.output_file_name),
                      !.output_file_size = OrNullNum(callback.output_file_size),
                      !.metrics = IF callback.metrics # Null THEN callback.metrics ELSE Null]]
    ELSE [tasks EXCEPT ![taskId] =
            [@ EXCEPT !.status = callback.status,
                      !.completed_at = ts,
                      !.error = OrNull(callback.error)]]

\* TaskStore.fetch: /create and /complete; an exception becomes a 500 answer
\* and leaves the table as it was
fetchCreate(taskState) ==
    IF createTaskThrows(taskState) THEN tasks
    ELSE (taskState.task_id :> createTask(taskState)) @@ tasks

\* faulty variant: the row to complete is the one the body names
fetchComplete_bodyId(taskId, callback, ts) ==
    IF completeTaskThrows(taskId, callback) THEN tasks
    ELSE completeTask(IF callback.task_id # NoId THEN callback.task_id ELSE taskId,
                      callback, ts)

fetchComplete(taskId, callback, ts) ==
    IF completeTaskThrows(taskId, callback) THEN tasks
    ELSE completeTask(taskId, callback, ts)

\* ------------------------------------------------------------------ KV namespace
\* env.TASK_STORE.put(taskId, JSON.stringify(taskState)): writes or overwrites
kvPut(taskId, taskState) ==
    [t \in DOMAIN tasks \cup {taskId} |-> IF t = taskId THEN taskState ELSE tasks[t]]

\* env.TASK_STORE.get(taskId), parsed; null is NoTask
kvGet(taskId) == IF Exists(taskId) THEN tasks[taskId] ELSE NoTask

\* handleCallback of the KV Worker: the update of the parsed taskState
kvApplyCallback(taskState, callback, ts) ==
    IF callback.status = "success"
    THEN [taskState EXCEPT !.status = callback.status,
                           !.completed_at = ts,
                           !.output_r2_key = callback.output_r2_key,
                           !.output_file_name = callback.output_file_name,
                           !.output_file_size = callback.output_file_size,
                           !.metrics = callback.metrics]
    ELSE [taskState EXCEPT !.status = callback.status,
                           !.completed_at = ts,
                           !.error = callback.error]

\* the time of the last put of a stored taskState: the callback handler's
\* put, or else the export handler's
kvLastPut(taskState) ==
    IF taskState.completed_at # NoNum THEN taskState.completed_at
    ELSE taskState.created_at

\* expirationTtl: 3600 / 86400: the namespace drops a key once its TTL has
\* run out, which takes a lapse of time after the put
kvExpired(taskId) == [t \in DOMAIN tasks \ {taskId} |-> tasks[t]]

\* the store read of the status and download handlers
readTask(taskId) == IF impl = "do" THEN getTask(taskId) ELSE kvGet(taskId)

\* the bodies posted to /callback/taskId: the payloads as they are, and a
\* well-formed one whose task_id names the record of another task than the
\* addressed one
Named(callback, bodyId) == [callback EXCEPT !.task_id = bodyId]

Bodies(taskId) ==
    Payloads \cup {Named(SuccessFull, bodyId) : bodyId \in DOMAIN tasks \ {taskId}}

\* ------------------------------------------------------------------ fly.ts
\* `${url.origin}/callback/${taskId}`: the path segments
callbackUrl(taskId) == <<"callback", taskId>>

\* machineConfig.config.env
machineConfigEnv(pi, taskId, batchId, url, exportOptions) ==
    [TASK_ID |-> taskId, PI |-> pi, EXPORT_FORMAT |-> "mods", BATCH_ID |-> batchId,
     EXPORT_OPTIONS |-> exportOptions, CALLBACK_URL |-> url]

\* the task id the machine posts its callback to: path.split('/')[2]
callbackTarget(env) == env.CALLBACK_URL[2]

\* the POST to /apps/:app/machines as it leaves the Worker
SpawnSent(env) ==
    [Response("spawn", env.TASK_ID, 0) EXCEPT !.url = env.CALLBACK_URL]

\* the handle the Machines API answers with
spawnExportMachine(taskId) == [machineId |-> "machine1", instanceId |-> "instance1"]

\* ------------------------------------------------------------------ handlers
\* faulty variant: a callback for a record that is no longer processing is
\* answered as a conflict
Received_rejectsDuplicate(taskId, callback, pre, seen) ==
    IF pre # NoTask /\ pre.status # "processing"
    THEN [errorResponse("callback", taskId, "Task already completed", 409) EXCEPT
            !.cb = callback, !.pre = pre, !.seen = seen]
    ELSE [Response("callback", taskId, 200) EXCEPT
            !.received = TRUE, !.cb = callback, !.pre = pre, !.seen = seen]

\* return jsonResponse({ received: true })
Received(taskId, callback, pre, seen) ==
    [Response("callback", taskId, 200) EXCEPT
       !.received = TRUE, !.cb = callback, !.pre = pre, !.seen = seen]

CallbackError(taskId, callback, pre, message, code) ==
    [errorResponse("callback", taskId, message, code) EXCEPT
       !.cb = callback, !.pre = pre]

\* first, after a callback handler took the record of taskId from pre to post
NoteFirst(taskId, callback, pre, post) ==
    IF /\ pre # NoTask
       /\ pre.status = "processing"
       /\ post.status # "processing"
       /\ taskId \notin DOMAIN first
    THEN (taskId :> [cb |-> callback, row |-> post]) @@ first
    ELSE first

Tick ==
    /\ now < MaxClock
    /\ now' = now + 1
    /\ out' = NoOut
    /\ UNCHANGED <<impl, tasks, procs, nexp, nspawn, ncb, first>>

\* faulty variant: a failed spawn call is not thrown, the handler goes on to
\* persist a record without a handle
handleExportRequest_spawn_ignoresFailure(pi, options, random, spawnOk) ==
    /\ CanSuspend
    /\ nexp < MaxExports
    /\ LET taskId == generateTaskId(now, random)
           handle == spawnExportMachine(taskId)
       IN IF pi = Null \/ pi = ""
          THEN /\ out' = errorResponse("export", UnknownId, "Missing required field: pi", 400)
               /\ UNCHANGED <<procs, nexp, nspawn>>
          ELSE /\ procs' = Suspend(Proc("create", taskId, Malformed,
                                        TaskState(taskId, pi, OrEmptyObject(options),
                                                  IF spawnOk THEN handle.machineId ELSE Null,
                                                  IF spawnOk THEN handle.instanceId ELSE Null,
                                                  NoNum)))
               /\ nexp' = nexp + 1
               /\ nspawn' = nspawn + 1
               /\ out' = NoOut
    /\ UNCHANGED <<impl, now, tasks, ncb, first>>

\* faulty variant: only an absent pi is refused, an empty one is dispatched
handleExportRequest_spawn_emptyPi(pi, options, random, spawnOk) ==
    /\ CanSuspend
    /\ nexp < MaxExports
    /\ LET taskId == generateTaskId(now, random)
           handle == spawnExportMachine(taskId)
       IN IF pi = Null
          THEN /\ out' = errorResponse("export", UnknownId, "Missing required field: pi", 400)
               /\ UNCHANGED <<procs, nexp, nspawn>>
          ELSE IF ~spawnOk
          THEN /\ out' = errorResponse("export", taskId, "Failed to spawn Fly.io machine", 500)
               /\ nexp' = nexp + 1
               /\ nspawn' = nspawn + 1
               /\ UNCHANGED procs
          ELSE /\ procs' = Suspend(Proc("create", taskId, Malformed,
                                        TaskState(taskId, pi, OrEmptyObject(options),
                                                  handle.machineId, handle.instanceId,
                                                  NoNum)))
               /\ nexp' = nexp + 1
               /\ nspawn' = nspawn + 1
               /\ out' = NoOut
    /\ UNCHANGED <<impl, now, tasks, ncb, first>>

\* the KV namespace expires the key of taskId
kvExpire(taskId) ==
    /\ impl = "kv"
    /\ Exists(taskId)
    /\ now > kvLastPut(tasks[taskId])
    /\ tasks' = kvExpired(taskId)
    /\ out' = NoOut
    /\ UNCHANGED <<impl, now, procs, nexp, nspawn, ncb, first>>

\* POST /export up to the return of the spawn call
handleExportRequest_spawn(pi, options, random, spawnOk) ==
    /\ CanSuspend
    /\ nexp < MaxExports
    /\ LET taskId == generateTaskId(now, random)
           env == machineConfigEnv(pi, taskId, "single", callbackUrl(taskId),
                                   OrEmptyObject(options))
           handle == spawnExportMachine(taskId)
       IN IF pi = Null \/ pi = ""
          THEN /\ out' = errorResponse("export", UnknownId, "Missing required field: pi", 400)
               /\ UNCHANGED <<procs, nexp, nspawn>>
          ELSE IF ~spawnOk
          THEN /\ out' = [errorResponse("export", env.TASK_ID,
                                        "Failed to spawn Fly.io machine", 500)
                           EXCEPT !.url = env.CALLBACK_URL]
               /\ nexp' = nexp + 1
               /\ nspawn' = nspawn + 1
               /\ UNCHANGED procs
          ELSE /\ procs' = Suspend(Proc("create", callbackTarget(env), Malformed,
                                        TaskState(taskId, pi, OrEmptyObject(options),
                                                  handle.machineId, handle.instanceId,
                                                  NoNum)))
               /\ nexp' = nexp + 1
               /\ nspawn' = nspawn + 1
               /\ out' = SpawnSent(env)
    /\ UNCHANGED <<impl, now, tasks, ncb, first>>

\* faulty variant: the id of the record and of the answer is generated again
\* at the store write
handleExportRequest_create_newId(r) ==
    /\ r.pc = "create"
    /\ LET taskId == generateTaskId(now, r.id[2])
           taskState == [r.task EXCEPT !.task_id = taskId, !.created_at = now]
       IN /\ tasks' = IF impl = "do" THEN fetchCreate(taskState)
                      ELSE kvPut(taskId, taskState)
          /\ out' = [Response("export", taskId, 200) EXCEPT
                       !.task = [NoTask EXCEPT !.task_id = taskId,
                                               !.status = "processing"],
                       !.pre = Row(taskId),
                       !.store = IF impl = "do" /\ createTaskThrows(taskState)
                                 THEN "error" ELSE "ok"]
    /\ procs' = Resume(r)
    /\ UNCHANGED <<impl, now, nexp, nspawn, ncb, first>>

\* POST /export from the return of the spawn call: persist, answer
handleExportRequest_create(r) ==
    /\ r.pc = "create"
    /\ LET taskState == [r.task EXCEPT !.created_at = now]
           taskId == taskState.task_id
       IN /\ tasks' = IF impl = "do" THEN fetchCreate(taskState)
                      ELSE kvPut(taskId, taskState)
          /\ out' = [Response("export", taskId, 200) EXCEPT
                       !.task = [NoTask EXCEPT !.task_id = taskId,
                                               !.status = "processing"],
                       !.pre = Row(taskId),
                       !.store = IF impl = "do" /\ createTaskThrows(taskState)
                                 THEN "error" ELSE "ok"]
    /\ procs' = Resume(r)
    /\ UNCHANGED <<impl, now, nexp, nspawn, ncb, first>>

\* faulty variant: a status query removes the record it reports
handleStatusRequest_consumes(taskId) ==
    /\ LET taskState == readTask(taskId)
       IN /\ out' = IF taskState = NoTask
                    THEN errorResponse("status", taskId, "Task not found", 404)
                    ELSE [Response("status", taskId, 200) EXCEPT
                            !.task = StatusResponse(taskState), !.pre = Row(taskId)]
          /\ tasks' = [t \in DOMAIN tasks \ {taskId} |-> tasks[t]]
    /\ UNCHANGED <<impl, now, procs, nexp, nspawn, ncb, first>>

\* GET /status/:taskId
handleStatusRequest(taskId) ==
    /\ LET taskState == readTask(taskId)
       IN out' = IF taskState = NoTask
                 THEN errorResponse("status", taskId, "Task not found", 404)
                 ELSE [Response("status", taskId, 200) EXCEPT
                         !.task = StatusResponse(taskState), !.pre = Row(taskId)]
    /\ UNCHANGED <<impl, now, tasks, procs, nexp, nspawn, ncb, first>>

\* POST /callback/:taskId of the Durable Object Worker
handleCallback(taskId, callback) ==
    /\ impl = "do"
    /\ ncb < MaxCallbacks
    /\ ncb' = ncb + 1
    /\ IF ~callback.json
       THEN /\ out' = CallbackError(taskId, callback, Row(taskId), "Unexpected token", 500)
            /\ UNCHANGED <<tasks, first>>
       ELSE /\ tasks' = fetchComplete(taskId, callback, now)
            /\ out' = [Received(taskId, callback, Row(taskId), "unread") EXCEPT
                         !.store = IF completeTaskThrows(taskId, callback)
                                   THEN "error" ELSE "ok"]
            /\ first' = NoteFirst(taskId, callback, Row(taskId),
                                  IF Exists(taskId) THEN tasks'[taskId] ELSE NoTask)
    /\ UNCHANGED <<impl, now, procs, nexp, nspawn>>

\* POST /callback/:taskId of the KV Worker, up to the return of the get
kvHandleCallback_get(taskId, callback) ==
    /\ impl = "kv"
    /\ CanSuspend
    /\ ncb < MaxCallbacks
    /\ ncb' = ncb + 1
    /\ LET existing == kvGet(taskId)
       IN IF ~callback.json
          THEN /\ out' = CallbackError(taskId, callback, Row(taskId), "Unexpected token", 500)
               /\ UNCHANGED procs
          ELSE IF existing = NoTask
          THEN /\ out' = [CallbackError(taskId, callback, Row(taskId), "Task not found", 404)
                           EXCEPT !.seen = "none"]
               /\ UNCHANGED procs
          ELSE /\ procs' = Suspend(Proc("put", taskId, callback, existing))
               /\ out' = NoOut
    /\ UNCHANGED <<impl, now, tasks, nexp, nspawn, first>>

\* POST /callback/:taskId of the KV Worker: update, put, answer
kvHandleCallback_put(r) ==
    /\ r.pc = "put"
    /\ tasks' = kvPut(r.id, kvApplyCallback(r.task, r.cb, now))
    /\ out' = [Received(r.id, r.cb, Row(r.id), r.task.status) EXCEPT !.store = "ok"]
    /\ first' = NoteFirst(r.id, r.cb, Row(r.id), tasks'[r.id])
    /\ procs' = Resume(r)
    /\ UNCHANGED <<impl, now, nexp, nspawn, ncb>>

\* faulty variant: only a processing record is refused as not ready
downloadGate_onlyProcessing(taskId, taskState) ==
    IF taskState = NoTask
    THEN errorResponse("download", taskId, "Task not found", 404)
    ELSE IF taskState.status = "processing"
    THEN [errorResponse("download", taskId, "Export not ready or failed. Status: ", 400)
            EXCEPT !.arg = taskState.status]
    ELSE IF taskState.output_r2_key = Null \/ taskState.output_r2_key = ""
    THEN errorResponse("download", taskId, "Export file not available", 500)
    ELSE NoOut

\* faulty variant: a success record is passed on to the object store whether
\* it has an artifact key or not
downloadGate_noKeyCheck(taskId, taskState) ==
    IF taskState = NoTask
    THEN errorResponse("download", taskId, "Task not found", 404)
    ELSE IF taskState.status # "success"
    THEN [errorResponse("download", taskId, "Export not ready or failed. Status: ", 400)
            EXCEPT !.arg = taskState.status]
    ELSE NoOut

\* the gate of GET /download/:taskId on a taskState read from the store
downloadGate(taskId, taskState) ==
    IF taskState = NoTask
    THEN errorResponse("download", taskId, "Task not found", 404)
    ELSE IF taskState.status # "success"
    THEN [errorResponse("download", taskId, "Export not ready or failed. Status: ", 400)
            EXCEPT !.arg = taskState.status]
    ELSE IF taskState.output_r2_key = Null \/ taskState.output_r2_key = ""
    THEN errorResponse("download", taskId, "Export file not available", 500)
    ELSE NoOut

\* GET /download/:taskId up to the R2 read
handleDownload_get(taskId) ==
    /\ CanSuspend
    /\ LET taskState == readTask(taskId)
           refusal == downloadGate(taskId, taskState)
       IN IF refusal # NoOut
          THEN /\ out' = [refusal EXCEPT !.pre = Row(taskId)]
               /\ UNCHANGED procs
          ELSE /\ procs' = Suspend(Proc("r2", taskId, Malformed, taskState))
               /\ out' = NoOut
    /\ UNCHANGED <<impl, now, tasks, nexp, nspawn, ncb, first>>

\* 'Content-Disposition': `attachment; filename="${taskState.output_file_name}"`
ContentDisposition(taskState) ==
    IF taskState.output_file_name = Null THEN "undefined"
    ELSE taskState.output_file_name

\* 'Content-Length': taskState.output_file_size?.toString() || ''
ContentLength(taskState) ==
    IF taskState.output_file_size = NoNum THEN ""
    ELSE ToString(taskState.output_file_size)

\* faulty variant: a missing object is answered like a record that is not ready
handleDownload_r2_notReady(r, r2Object) ==
    /\ r.pc = "r2"
    /\ out' = IF ~r2Object
              THEN [errorResponse("download", r.id, "Export not ready or failed. Status: ", 400)
                      EXCEPT !.arg = r.task.status, !.pre = r.task]
              ELSE [Response("download", r.id, 200) EXCEPT
                      !.stream = TRUE,
                      !.filename = ContentDisposition(r.task),
                      !.length = ContentLength(r.task),
                      !.pre = r.task]
    /\ procs' = Resume(r)
    /\ UNCHANGED <<impl, now, tasks, nexp, nspawn, ncb, first>>

\* GET /download/:taskId from the return of env.R2_BUCKET.get
handleDownload_r2(r, r2Object) ==
    /\ r.pc = "r2"
    /\ out' = IF ~r2Object
              THEN [errorResponse("download", r.id, "Export file not found in storage", 404)
                      EXCEPT !.pre = r.task]
              ELSE [Response("download", r.id, 200) EXCEPT
                      !.stream = TRUE,
                      !.filename = ContentDisposition(r.task),
                      !.length = ContentLength(r.task),
                      !.pre = r.task]
    /\ procs' = Resume(r)
    /\ UNCHANGED <<impl, now, tasks, nexp, nspawn, ncb, first>>

Next ==
    \/ Tick
    \/ \E pi \in Pis, options \in OptionsIn, random \in Rands, spawnOk \in BOOLEAN :
          handleExportRequest_spawn(pi, options, random, spawnOk)
    \/ \E r \in BagToSet(procs) : handleExportRequest_create(r)
    \/ \E taskId \in Targets : handleStatusRequest(taskId)
    \/ \E taskId \in Targets : \E callback \in Bodies(taskId) : handleCallback(taskId, callback)
    \/ \E taskId \in Targets : \E callback \in Bodies(taskId) : kvHandleCallback_get(taskId, callback)
    \/ \E r \in BagToSet(procs) : kvHandleCallback_put(r)
    \/ \E taskId \in Targets : handleDownload_get(taskId)
    \/ \E r \in BagToSet(procs), r2Object \in BOOLEAN : handleDownload_r2(r, r2Object)
    \/ \E taskId \in DOMAIN tasks : kvExpire(taskId)

Spec == Init /\ [][Next]_vars

\* A handler suspended at an await is resumed: the store write of an export
\* request and the put of a KV callback handler are eventually carried out.
\* The arrival of requests and callbacks is not forced.
LiveSpec ==
    /\ Spec
    /\ WF_vars(\E r \in BagToSet(procs) : handleExportRequest_create(r))
    /\ WF_vars(\E r \in BagToSet(procs) : kvHandleCallback_put(r))

\* ------------------------------------------------------------------ properties
Terminal == {"success", "error"}
Statuses == {"processing"} \cup Terminal

\* the result of a record or of a payload: artifact key, file name, size, metrics
ResultOf(x) == <<x.output_r2_key, x.output_file_name, x.output_file_size, x.metrics>>
NoResult == <<Null, Null, NoNum, Null>>

\* the step just taken answered a completion callback with a parsed body
CallbackAnswered == out.kind = "callback" /\ out.cb.json
\* ... for a task id that had a record when the handler's store step ran
CallbackOnRecord == CallbackAnswered /\ out.pre # NoTask

\* C1: once a record is success or error, a completion callback carrying a
\* different outcome leaves its status, its result fields and its error
\* message as they were.
C1_MonotonicTransition ==
    (/\ CallbackOnRecord
     /\ out.pre.status \in Terminal
     /\ out.cb.status \in Terminal \ {out.pre.status})
    => /\ Row(out.id).status = out.pre.status
       /\ ResultOf(Row(out.id)) = ResultOf(out.pre)
       /\ Row(out.id).error = out.pre.error

\* C2: of two completion callbacks for one task id, the one whose store step
\* comes second has observed the already-terminal record and changes nothing.
C2_CallbacksLinearized ==
    (/\ CallbackOnRecord
     /\ out.received
     /\ out.pre.status \in Terminal)
    => /\ out.seen \in Terminal
       /\ Row(out.id) = out.pre

\* the step just taken answered the second delivery of the success callback
\* that had moved the record out of processing, the record untouched in between
SecondDelivery ==
    /\ CallbackOnRecord
    /\ out.id \in DOMAIN first
    /\ out.cb = first[out.id].cb
    /\ out.cb.status = "success"
    /\ out.pre = first[out.id].row

C4_DuplicateAcknowledgedNoOp ==
    (/\ CallbackOnRecord
     /\ out.pre.status \in Terminal)
    => /\ out.received
       /\ out.code = 200
       /\ Row(out.id) = out.pre

\* C5: completed_at is set once: a callback for a record that already has a
\* completed_at leaves it unchanged.
C5_CompletedAtSetOnce ==
    (/\ CallbackOnRecord
     /\ out.pre.completed_at # NoNum)
    => Row(out.id).completed_at = out.pre.completed_at

\* C6: in every record the result is populated exactly when status is success
\* and the error message exactly when status is error.
C6_ResultIffSuccess ==
    \A t \in DOMAIN tasks :
        /\ tasks[t].status = "success"
           => /\ tasks[t].output_r2_key # Null
              /\ tasks[t].output_file_name # Null
              /\ tasks[t].output_file_size # NoNum
              /\ tasks[t].metrics # Null
        /\ tasks[t].status # "success" => ResultOf(tasks[t]) = NoResult
        /\ tasks[t].error # Null <=> tasks[t].status = "error"

\* C7: a record's status is always processing, success or error, and a step
\* changes it only from processing to success or from processing to error.
C7_StatusTransitions ==
    [][/\ \A t \in DOMAIN tasks' : tasks'[t].status \in Statuses
       /\ \A t \in DOMAIN tasks \cap DOMAIN tasks' :
             tasks'[t].status # tasks[t].status
             => /\ tasks[t].status = "processing"
                /\ tasks'[t].status \in Terminal]_vars

\* C8: a completion callback for a task id without a record is answered 404
\* and is not acknowledged as received.
C8_CallbackUnknownIdNotFound ==
    (CallbackAnswered /\ out.pre = NoTask)
    => /\ out.code = 404
       /\ ~out.received

\* C9: download answers 400 naming the status for every record that is not
\* success, never 400 for a record that is success, and streams only for a
\* record that is success.
C9_GatedDownload ==
    (out.kind = "download" /\ out.pre # NoTask)
    => /\ out.pre.status # "success"
          => /\ out.code = 400
             /\ out.arg = out.pre.status
             /\ ~out.stream
       /\ out.pre.status = "success" => out.code # 400
       /\ out.stream => out.pre.status = "success"

C9_Witness ==
    /\ out.kind = "download"
    /\ out.code = 400
    /\ out.pre.status = "error"

\* C10: while an export request is between the return of its spawn call and
\* the persisting of its record, no completion callback for its task id is
\* taken by the store (acknowledged) before the record exists.
C10_CreatePrecedesCompletion ==
    \A r \in Suspended("create") :
        (CallbackAnswered /\ out.id = r.id /\ out.pre = NoTask)
        => ~out.received

\* the step just taken answered POST /export with a task id and processing
ExportAnswered ==
    /\ out.kind = "export"
    /\ out.code = 200
    /\ out.task.status = "processing"

\* a record as creation writes it, whatever its status has become since
CompleteRecord(taskState, taskId) ==
    /\ taskState # NoTask
    /\ taskState.task_id = taskId
    /\ taskState.batch_id = "single"
    /\ taskState.status # Null
    /\ taskState.pi \in Pis \ {Null, ""}
    /\ taskState.options \notin {Null, ""}
    /\ taskState.machine_id # Null
    /\ taskState.instance_id # Null
    /\ taskState.created_at \in Clock

\* C11: as soon as POST /export has answered with a task id and status
\* processing, the read of the status handler finds a record for that id, with
\* every field that creation writes, and the status view built from it names
\* the id.
C11_VisibleOnceCreated ==
    ExportAnswered
    => /\ CompleteRecord(readTask(out.task.task_id), out.task.task_id)
       /\ StatusResponse(readTask(out.task.task_id)).task_id = out.task.task_id
       /\ StatusResponse(readTask(out.task.task_id)).pi \in Pis \ {Null, ""}

C11_Witness ==
    /\ ExportAnswered
    /\ impl = "do"
    /\ readTask(out.task.task_id).status = "processing"
    /\ readTask(out.task.task_id).created_at = now

AllIds == {generateTaskId(timestamp, random) : timestamp \in Clock, random \in Rands}

\* the compute of task t has just delivered a success or error callback, and
\* it was acknowledged
CallbackDelivered(t) ==
    /\ CallbackAnswered
    /\ out.id = t
    /\ out.cb.status \in Terminal
    /\ out.received

\* C13: a task whose spawn call returned, so that its record is or will be
\* created, and whose compute has delivered a completion callback that was
\* acknowledged, eventually has a record in success or error.
C13_EventuallyTerminal ==
    \A t \in AllIds :
        (CallbackDelivered(t) /\ t \in Issued)
        ~> (Exists(t) /\ Row(t).status \in Terminal)

\* a success payload with all its result fields, an error payload with its message
ValidSuccess(callback) ==
    /\ callback.json
    /\ callback.status = "success"
    /\ callback.output_r2_key # Null
    /\ callback.output_file_name # Null
    /\ callback.output_file_size # NoNum
    /\ callback.metrics # Null

ValidError(callback) ==
    /\ callback.json
    /\ callback.status = "error"
    /\ callback.error # Null

\* the step just taken applied a callback to a record that was in processing
\* and had never been completed
FirstCallbackApplied ==
    /\ CallbackOnRecord
    /\ out.received
    /\ out.pre.status = "processing"
    /\ out.pre.completed_at = NoNum

\* C14: after a first success callback with all its result fields on a
\* processing record, the status view reports success with the artifact key,
\* file name, byte size and metrics of the callback, a byte size of 0
\* included; after a first error callback with a message it reports error
\* with that message.
C14_StatusReportsCallback ==
    /\ (FirstCallbackApplied /\ ValidSuccess(out.cb))
       => /\ StatusResponse(readTask(out.id)).status = "success"
          /\ ResultOf(StatusResponse(readTask(out.id))) = ResultOf(out.cb)
    /\ (FirstCallbackApplied /\ ValidError(out.cb))
       => /\ StatusResponse(readTask(out.id)).status = "error"
          /\ StatusResponse(readTask(out.id)).error = out.cb.error

StorageMissing == "Export file not found in storage"

\* C15: a download of a record read as success with an artifact key that
\* does not end in streaming (the object is absent at the key) is answered 404
\* 'not found in storage', not the 400 of a record that is not ready, and the
\* step changes no record.
C15_StorageMissingDistinct ==
    [][(/\ out'.kind = "download"
        /\ out'.pre.status = "success"
        /\ out'.pre.output_r2_key # Null
        /\ ~out'.stream)
       => /\ out'.code = 404
          /\ out'.error = StorageMissing
          /\ out'.arg = Null
          /\ tasks' = tasks]_vars

C15_Witness ==
    /\ out.kind = "download"
    /\ out.code = 404
    /\ out.error = StorageMissing
    /\ out.pre.status = "success"
    /\ Row(out.id) = out.pre

\* C16: a download that streams (the record was read as success and the
\* object exists at its key) carries a Content-Length equal to the byte size
\* the record holds and a Content-Disposition filename equal to the file name
\* the record holds; the record of a finished export holds both.
C16_DownloadHeaders ==
    (out.kind = "download" /\ out.stream)
    => /\ out.pre.status = "success"
       /\ out.pre.output_file_size # NoNum
       /\ out.length = ToString(out.pre.output_file_size)
       /\ out.pre.output_file_name # Null
       /\ out.filename = out.pre.output_file_name

\* C17: a status query or a download request for a task id for which no
\* record was created, so that its store read finds none, is answered 404
\* 'Task not found', with no task view and no stream.
C17_UnknownIdNotFound ==
    (out.kind \in {"status", "download"} /\ ~Exists(out.id) /\ out.pre = NoTask)
    => /\ out.code = 404
       /\ out.error = "Task not found"
       /\ out.task = NoTask
       /\ ~out.stream

C17_Witness ==
    /\ out.kind = "download"
    /\ out.id = UnknownId
    /\ out.code = 404
    /\ DOMAIN tasks # {}

\* C18: an export request whose pi is absent or empty is answered 400
\* 'Missing required field: pi' in the step that receives it: no spawn call
\* is made, no handler is left to persist anything and no record changes.
C18_MissingPiRejected ==
    [][\A pi \in {Null, ""} :
          (\E options \in OptionsIn, random \in Rands, spawnOk \in BOOLEAN :
              handleExportRequest_spawn(pi, options, random, spawnOk))
          => /\ out'.kind = "export"
             /\ out'.code = 400
             /\ out'.error = "Missing required field: pi"
             /\ out'.task = NoTask
             /\ nexp' = nexp
             /\ procs' = procs
             /\ tasks' = tasks]_vars

C18_Witness ==
    /\ out.kind = "export"
    /\ out.code = 400
    /\ nexp = 1
    /\ DOMAIN tasks # {}

\* C19: a step changes or creates the record of at most one task id, the id
\* of the request it handles; the record, and with it the status view and the
\* download gate, of every other id is as before the step.
C19_Isolation ==
    [][\A t \in DOMAIN tasks' :
          (t \notin DOMAIN tasks \/ tasks'[t] # tasks[t])
          => /\ out'.kind \in {"export", "callback"}
             /\ out'.id = t]_vars

\* a callback has just been applied to one of two records, the other one
\* still processing
C19_Witness ==
    /\ CallbackOnRecord
    /\ out.received
    /\ Row(out.id).status = "success"
    /\ \E u \in DOMAIN tasks \ {out.id} :
          /\ tasks[u].status = "processing"
          /\ tasks[u].completed_at = NoNum

\* the fields creation writes and completion is not to touch
CreationFields(taskState) ==
    <<taskState.task_id, taskState.batch_id, taskState.pi, taskState.options,
      taskState.machine_id, taskState.instance_id, taskState.created_at>>

C21_ReadsReflectCompletion ==
    /\ (/\ CallbackAnswered
        /\ out.received
        /\ out.cb.status \in Terminal
        /\ out.id \in Issued)
       => StatusResponse(readTask(out.id)).status \in Terminal
    /\ (/\ out.kind = "status"
        /\ out.id \in DOMAIN first
        /\ first[out.id].cb.status \in Terminal)
       => /\ out.code = 200
          /\ out.task.status \in Terminal

\* the step applies a completion callback to the record of t
CallbackApplied(t) ==
    /\ out'.kind = "callback"
    /\ out'.id = t
    /\ out'.received

\* C22: a record in processing stays a record in processing in every step
\* that is not the application of a completion callback to it: no handler,
\* timer or lapse of time takes it out of processing.
C22_OnlyCallbackLeavesProcessing ==
    [][\A t \in DOMAIN tasks :
          tasks[t].status = "processing"
          => \/ CallbackApplied(t)
             \/ /\ t \in DOMAIN tasks'
                /\ tasks'[t].status = "processing"]_vars

\* C23: a record that is in the store is in the store after every step, so
\* that every later status query for its id finds it.
C23_NeverDeleted ==
    [][\A t \in DOMAIN tasks : t \in DOMAIN tasks']_vars

\* C24: no two export requests are given the same task id: the id of a
\* request between its spawn call and its store write is neither the id of
\* another such request nor the id of a record already stored, requests of
\* the same millisecond included.
C24_TaskIdsUnique ==
    \A r \in Suspended("create") :
        /\ CopiesIn(r, procs) = 1
        /\ \A q \in Suspended("create") : q.id = r.id => q = r
        /\ ~Exists(r.id)

\* the step just taken was the store write of an export request for an id
\* that already had a record
SecondCreate ==
    /\ out.kind = "export"
    /\ out.store # "none"
    /\ out.pre # NoTask

\* C25: the store's create for an id that already has a record fails, and the
\* record is left as the first create (and whatever followed it) wrote it.
C25_CreateAlreadyExists ==
    SecondCreate
    => /\ out.store = "error"
       /\ Row(out.id) = out.pre

\* a step of the status handler or of the download handler
ReadStep ==
    \/ \E taskId \in Targets : handleStatusRequest(taskId)
    \/ \E taskId \in Targets : handleDownload_get(taskId)
    \/ \E r \in BagToSet(procs), r2Object \in BOOLEAN : handleDownload_r2(r, r2Object)

\* C26: a step of the status handler or of the download handler, whether it
\* answers with the record, with the stream or with an error, leaves every
\* record as it was.
C26_ReadsLeaveRecords ==
    [][(ReadStep \/ out'.kind \in {"status", "download"}) => tasks' = tasks]_vars

\* a download has streamed and the record is as the handler read it
C26_Witness ==
    /\ out.kind = "download"
    /\ out.stream
    /\ Row(out.id) = out.pre
    /\ out.pre.status = "success"

\* C27: for every export request, the TASK_ID of its spawn request, the last
\* segment of the CALLBACK_URL of its spawn request, the task_id of the
\* record its store write leaves under that id, and the task_id it returns to
\* the client are one and the same id.
C27_OneTaskId ==
    [][/\ out'.kind = "spawn"
          => /\ out'.url = callbackUrl(out'.id)
             /\ \E r \in BagToSet(procs') :
                   /\ procs' = Suspend(r)
                   /\ r.pc = "create"
                   /\ r.id = out'.id
                   /\ r.task.task_id = out'.id
       /\ (out'.kind = "export" /\ out'.code = 200)
          => \E r \in Suspended("create") :
                /\ procs' = Resume(r)
                /\ out'.task.task_id = r.id
                /\ r.task.task_id = r.id
                /\ r.id \in DOMAIN tasks'
                /\ tasks'[r.id].task_id = r.id]_vars

\* an export request has been answered after a lapse of time since its spawn
\* call, and its record is stored under the returned id
C27_Witness ==
    /\ ExportAnswered
    /\ out.task.task_id[1] < now
    /\ Exists(out.task.task_id)
    /\ Row(out.task.task_id).task_id = out.task.task_id
    /\ Row(out.task.task_id).created_at = now

\* an export request has just been answered with the failure of its spawn call
SpawnFailed == out.kind = "export" /\ out.code = 500

\* every export request that reaches the spawn call makes one call, a failed
\* call leaves no handler behind, and the store write makes none
OneSpawnCall ==
    /\ nspawn' - nspawn = nexp' - nexp
    /\ nspawn' \in {nspawn, nspawn + 1}
    /\ SpawnFailed' => (procs' = procs /\ tasks' = tasks)
    /\ (\E r \in BagToSet(procs) : handleExportRequest_create(r)) => nspawn' = nspawn

\* C28: an export request makes at most one spawn call, a failed call is not
\* repeated by the handler, and the request the caller sends after the
\* failure carries a task id other than the failed one.
C28_SingleSpawnFreshRetry ==
    [][/\ OneSpawnCall
       /\ (SpawnFailed /\ nspawn' = nspawn + 1) => out'.id # out.id]_vars

\* steps in which something fails inside a handler: the spawn call, the
\* parsing of the callback body, the R2 read, the store's write
ProviderFails ==
    \E pi \in Pis \ {Null, ""}, options \in OptionsIn, random \in Rands :
        handleExportRequest_spawn(pi, options, random, FALSE)

BodyMalformed ==
    \E taskId \in Targets :
        handleCallback(taskId, Malformed) \/ kvHandleCallback_get(taskId, Malformed)

ArtifactMissing == \E r \in BagToSet(procs) : handleDownload_r2(r, FALSE)

StoreFails ==
    /\ impl = "do"
    /\ \/ \E r \in Suspended("create") :
            createTaskThrows(r.task) /\ handleExportRequest_create(r)
       \/ \E taskId \in Targets : \E callback \in Bodies(taskId) :
            /\ callback.json
            /\ Exists(taskId)
            /\ completeTaskThrows(taskId, callback)
            /\ handleCallback(taskId, callback)

\* an error response: a status code of the 4xx/5xx range and an error message
StructuredError(response) ==
    /\ response.code \in {400, 404, 500}
    /\ response.error # Null
    /\ ~response.received
    /\ ~response.stream
    /\ response.task = NoTask

\* the other failures are answered with an error and change no record
OtherFailuresRecovered ==
    (ProviderFails \/ BodyMalformed \/ ArtifactMissing)
    => (StructuredError(out') /\ tasks' = tasks)

\* C29: a step in which the provider, the store, the request body or the
\* artifact fails answers the caller with an error response (a 4xx/5xx code
\* and a message), and changes no record, of the task it handles or of any
\* other.
C29_FailuresRecovered ==
    [][/\ OtherFailuresRecovered
       /\ StoreFails => (StructuredError(out') /\ tasks' = tasks)]_vars

\* C30: in every record completed_at is present exactly when the status is
\* success or error, and a record in processing has no completed_at, no
\* result field and no error message.
C30_CompletedAtIffTerminal ==
    \A t \in DOMAIN tasks :
        /\ tasks[t].completed_at # NoNum <=> tasks[t].status \in Terminal
        /\ tasks[t].status = "processing"
           => /\ tasks[t].completed_at = NoNum
              /\ ResultOf(tasks[t]) = NoResult
              /\ tasks[t].error = Null

\* C31: a completion callback that arrives for a task id without a record
\* creates none: the step leaves the store as it was, suspends no handler
\* that would write later, and a status read of the id right after it still
\* finds nothing (Task not found)
CallbackArrives(t) ==
    \E callback \in Bodies(t) : handleCallback(t, callback) \/ kvHandleCallback_get(t, callback)

C31_CallbackCreatesNoRecord ==
    [][\A t \in Targets :
          (CallbackArrives(t) /\ ~Exists(t))
             => /\ tasks' = tasks
                /\ procs' = procs
                /\ (readTask(t) = NoTask)'
                /\ out'.kind = "callback" /\ out'.id = t /\ out'.pre = NoTask]_vars

\* a well-formed success callback was handled for an issued id that has no
\* record, and the id still has none
C31_Witness ==
    /\ out.kind = "callback"
    /\ out.cb = SuccessFull
    /\ out.pre = NoTask
    /\ out.id \in Issued
    /\ ~Exists(out.id)
    /\ readTask(out.id) = NoTask

\* C32: the export request is answered 200 with a task_id only if the store
\* persisted the record: when the store's create step fails, the answer is
\* an error response
C32_CreateFailureReported ==
    (out.kind = "export" /\ out.store = "error")
        => out.code >= 400 /\ out.error # Null /\ out.task = NoTask

\* C33: a first completion callback is acknowledged with received: true only
\* if the store applied it: when the store's complete step fails on a record
\* in processing, the answer is an error response and not received: true
C33_CompleteFailureReported ==
    (/\ out.kind = "callback"
     /\ out.pre # NoTask
     /\ out.pre.status = "processing"
     /\ out.store = "error")
        => ~out.received /\ out.code >= 400

\* C34: a callback posted to the callback address of task A is applied to
\* A's record only, whatever task_id its body names: the step leaves the
\* record of every other task, the named one included, as it was, and an
\* applied callback puts its status on A's record
NamesOther(response) ==
    /\ response.kind = "callback"
    /\ response.cb.task_id # NoId
    /\ response.cb.task_id # response.id

C34_BodyTaskIdIgnored ==
    [][NamesOther(out')
          => /\ \A b \in DOMAIN tasks \ {out'.id} :
                   b \in DOMAIN tasks' /\ tasks'[b] = tasks[b]
             /\ DOMAIN tasks' \subseteq DOMAIN tasks \cup {out'.id}
             /\ (out'.received /\ out'.store = "ok" /\ out'.id \in DOMAIN tasks')
                   => tasks'[out'.id].status = out'.cb.status]_vars

\* a callback addressed to A whose body names B was applied: A's record is
\* in success, B's record is still in processing
C34_Witness ==
    /\ NamesOther(out)
    /\ out.received
    /\ out.pre # NoTask /\ out.pre.status = "processing"
    /\ Exists(out.id) /\ Row(out.id).status = "success"
    /\ Exists(out.cb.task_id) /\ Row(out.cb.task_id).status = "processing"

\* C35: a download of a record in success without an artifact key is answered
\* 500 'Export file not available' by the step that read the record, with no
\* read of the object store left pending and no record changed; the answer
\* differs in code and message from the 400 of a record that is not ready
\* and from the 404 of an object missing in storage
FileNotAvailable == "Export file not available"

NoArtifactKey(taskState) ==
    /\ taskState # NoTask
    /\ taskState.status = "success"
    /\ (taskState.output_r2_key = Null \/ taskState.output_r2_key = "")

C35_NoKeyServerError ==
    [][/\ \A t \in Targets :
             (handleDownload_get(t) /\ NoArtifactKey(readTask(t)))
                => /\ out'.kind = "download" /\ out'.id = t
                   /\ out'.code = 500
                   /\ out'.error = FileNotAvailable
                   /\ out'.arg = Null
                   /\ ~out'.stream
                   /\ procs' = procs
                   /\ tasks' = tasks
       /\ (out'.kind = "download" /\ NoArtifactKey(out'.pre))
             => out'.code = 500 /\ out'.error = FileNotAvailable
       /\ (out'.kind = "download" /\ out'.error = FileNotAvailable)
             => out'.code \notin {400, 404} /\ out'.error # StorageMissing]_vars

\* a download of a stored success record without a key was answered 500
C35_Witness ==
    /\ out.kind = "download"
    /\ out.code = 500
    /\ out.error = FileNotAvailable
    /\ Exists(out.id)
    /\ Row(out.id) = out.pre
    /\ NoArtifactKey(out.pre)
    /\ BagCardinality(procs) = 0

====
